---- MODULE Spec2Model ----
(***************************************************************************)
(* A model of s3hop: s3hop/core.py (ProgressTracker, parse_s3_url,         *)
(* get_relative_path, get_object_info, analyze_transfer_needs,             *)
(* copy_bucket) and s3hop/cli.py (main).                                   *)
(*                                                                         *)
(* Python strings are sequences of one-character strings, so that prefix   *)
(* removal, lstrip, strip and os.path.join are computed character by       *)
(* character.  A Python dict is a sequence of entries with pairwise        *)
(* distinct keys, in insertion order (a store to a key already present     *)
(* keeps the key's position).                                              *)
(*                                                                         *)
(* The specifications share the variables:                                 *)
(*   Spec         one run of cli.main -> copy_bucket, with the reporter     *)
(*                thread beside it; tracker calls are single steps;        *)
(*   SpecFair     such a run on two well-formed URLs, the main thread       *)
(*                scheduled to its end;                                     *)
(*   SpecTracker  NThreads threads calling ProgressTracker methods and     *)
(*                storage calls, each attribute read and write a step;     *)
(*   SpecPath     get_relative_path applied to a key and a prefix, then    *)
(*                to its own result with an empty prefix;                  *)
(*   SpecListing  get_object_info applied to the pages of a listing;       *)
(*   SpecRerun    a run with no failure, and the plan of the run after it; *)
(*   SpecExtension  update_extension_stats called on a fresh tracker;      *)
(*   SpecUrl      parse_s3_url applied to a string.                        *)
(* Wall-clock values (start_time, elapsed, current_speed, eta) are left    *)
(* out: they are floats read from time.time().                             *)
(***************************************************************************)
EXTENDS Integers, Sequences, FiniteSets, TLC

\* ------------------------------------------------------------------ bounds

\* Most objects one listing returns.
MaxObjects == 2
\* Threads of SpecTracker.
NThreads == 3
\* Longest key and longest prefix SpecPath gives get_relative_path.
MaxKeyLen == 4
MaxPrefixLen == 2

\* ----------------------------------------------------------------- strings

Q == "\""
SLASH == "/"

StartsWith(s, p) == Len(p) <= Len(s) /\ SubSeq(s, 1, Len(p)) = p

EndsWith(s, p) ==
    Len(p) <= Len(s) /\ SubSeq(s, Len(s) - Len(p) + 1, Len(s)) = p

\* lstrip taking one character off at most.
LStripOne(s, ch) ==
    IF s # <<>> /\ Head(s) = ch THEN Tail(s) ELSE s

\* str.lstrip(ch)
RECURSIVE LStrip(_, _)
LStrip(s, ch) ==
    IF s # <<>> /\ Head(s) = ch THEN LStrip(Tail(s), ch) ELSE s

\* str.rstrip(ch)
RECURSIVE RStrip(_, _)
RStrip(s, ch) ==
    IF s # <<>> /\ s[Len(s)] = ch THEN RStrip(SubSeq(s, 1, Len(s) - 1), ch) ELSE s

\* str.strip(ch)
Strip(s, ch) == RStrip(LStrip(s, ch), ch)

\* The index of the first ch in s, or 0.
RECURSIVE FindFrom(_, _, _)
FindFrom(s, ch, i) ==
    IF i > Len(s) THEN 0
    ELSE IF s[i] = ch THEN i
    ELSE FindFrom(s, ch, i + 1)

\* posixpath.join(a, b)
os_path_join(a, b) ==
    IF StartsWith(b, <<SLASH>>) THEN b
    ELSE IF a = <<>> \/ EndsWith(a, <<SLASH>>) THEN a \o b
    ELSE a \o <<SLASH>> \o b

\* ------------------------------------------------------------ parse_s3_url

SCHEME == <<"s", "3", ":", "/", "/">>

\* The line feed: "." of a regular expression does not match it, and "$"
\* matches before it when it ends the string.
NL == "\n"

\* What "(.*)$" makes of text g: ok if g has no line feed or only a last one,
\* group the text before it.
DotStarToEnd(g) ==
    LET n == FindFrom(g, NL, 1)
    IN  [ok |-> n = 0 \/ n = Len(g),
         group |-> IF n = 0 THEN g ELSE SubSeq(g, 1, n - 1)]

\* The prefix returned as matched, lines 119-121 left out.
parse_s3_url_as_matched(s3_url) ==
    LET rest == SubSeq(s3_url, Len(SCHEME) + 1, Len(s3_url))
        cut == FindFrom(rest, SLASH, 1)
        bucket == IF cut = 0 THEN rest ELSE SubSeq(rest, 1, cut - 1)
        tail == IF cut = 0 THEN [ok |-> TRUE, group |-> <<>>]
                ELSE DotStarToEnd(SubSeq(rest, cut + 1, Len(rest)))
    IN  IF StartsWith(s3_url, SCHEME) /\ bucket # <<>> /\ tail.ok
        THEN [ok |-> TRUE, bucket |-> bucket, prefix |-> tail.group]
        ELSE [ok |-> FALSE, bucket |-> <<>>, prefix |-> <<>>]

\* re.match(r"s3://([^/]+)/?(.*)$", s3_url): the bucket is the longest run of
\* non-separators after the scheme (at least one), one separator after it is
\* dropped, the rest is the prefix (no match if a line feed is inside it),
\* which gets a trailing separator if it is not empty and has none.
\* ok = FALSE stands for ValueError.
parse_s3_url(s3_url) ==
    LET rest == SubSeq(s3_url, Len(SCHEME) + 1, Len(s3_url))
        cut == FindFrom(rest, SLASH, 1)
        bucket == IF cut = 0 THEN rest ELSE SubSeq(rest, 1, cut - 1)
        tail == IF cut = 0 THEN [ok |-> TRUE, group |-> <<>>]
                ELSE DotStarToEnd(SubSeq(rest, cut + 1, Len(rest)))
        group2 == tail.group
        prefix == IF group2 # <<>> /\ ~EndsWith(group2, <<SLASH>>)
                  THEN group2 \o <<SLASH>> ELSE group2
    IN  IF StartsWith(s3_url, SCHEME) /\ bucket # <<>> /\ tail.ok
        THEN [ok |-> TRUE, bucket |-> bucket, prefix |-> prefix]
        ELSE [ok |-> FALSE, bucket |-> <<>>, prefix |-> <<>>]

\* -------------------------------------------------------- get_relative_path

\* The prefix's length cut off without the startswith of line 136.
get_relative_path_unguarded(key, prefix) ==
    LET k == IF prefix # <<>>
             THEN SubSeq(key, Len(prefix) + 1, Len(key))
             ELSE key
    IN  LStrip(k, SLASH)

get_relative_path(key, prefix) ==
    LET k == IF prefix # <<>> /\ StartsWith(key, prefix)
             THEN SubSeq(key, Len(prefix) + 1, Len(key))
             ELSE key
    IN  LStrip(k, SLASH)

\* -------------------------------------------------------------------- dict

\* The index of key k in dict d (entries carry field "key"), or 0.
RECURSIVE DictFind(_, _, _)
DictFind(d, k, i) ==
    IF i > Len(d) THEN 0
    ELSE IF d[i].key = k THEN i
    ELSE DictFind(d, k, i + 1)

DictHas(d, k) == DictFind(d, k, 1) # 0

DictGet(d, k) == d[DictFind(d, k, 1)]

\* d[e.key] = e
DictSet(d, e) ==
    LET i == DictFind(d, e.key, 1)
    IN  IF i = 0 THEN Append(d, e) ELSE [d EXCEPT ![i] = e]

\* ---------------------------------------------------------- get_object_info

\* The objects of every page, in page order; a page is the sequence of its
\* "Contents", empty when the page has none.
RECURSIVE Flatten(_)
Flatten(pages) ==
    IF pages = <<>> THEN <<>> ELSE Head(pages) \o Flatten(Tail(pages))

RECURSIVE CollectObjects(_, _, _)
CollectObjects(objs, prefix, objects) ==
    IF objs = <<>> THEN objects
    ELSE LET obj == Head(objs)
         IN  CollectObjects(Tail(objs), prefix,
                 DictSet(objects,
                     [key |-> get_relative_path(obj.Key, prefix),
                      full_key |-> obj.Key,
                      size |-> obj.Size,
                      etag |-> Strip(obj.ETag, Q),
                      last_modified |-> obj.LastModified]))

\* list_objects_v2 called once, its continuation token not followed: the
\* first page alone.
get_object_info_first_page(pages, prefix) ==
    CollectObjects(IF pages = <<>> THEN <<>> ELSE Head(pages), prefix, <<>>)

get_object_info(pages, prefix) == CollectObjects(Flatten(pages), prefix, <<>>)

\* ---------------------------------------------------- analyze_transfer_needs

TransferStatus_NEW == "new"
TransferStatus_EXISTING == "existing"
TransferStatus_UPDATED == "updated"
\* Python's None
None == <<"None">>

\* Any difference of the two times counted as a change.
NeedsUpdateAnyTimeDiffers(source_info, dest_info) ==
    source_info.etag # dest_info.etag
        \/ source_info.last_modified # dest_info.last_modified

\* The comparison with >= for >.
NeedsUpdateLoose(source_info, dest_info) ==
    source_info.etag # dest_info.etag
        \/ source_info.last_modified >= dest_info.last_modified

\* core.py:176-179
NeedsUpdate(source_info, dest_info) ==
    source_info.etag # dest_info.etag
        \/ source_info.last_modified > dest_info.last_modified

RECURSIVE AnalyzeLoop(_, _, _, _)
AnalyzeLoop(source_objects, dest_objects, i, acc) ==
    IF i > Len(source_objects) THEN acc
    ELSE LET source_info == source_objects[i]
             rel_path == source_info.key
         IN  IF DictHas(dest_objects, rel_path)
             THEN LET dest_info == DictGet(dest_objects, rel_path)
                  IN  IF NeedsUpdate(source_info, dest_info)
                      THEN AnalyzeLoop(source_objects, dest_objects, i + 1,
                               [acc EXCEPT
                                  !.to_transfer = DictSet(@,
                                      [key |-> source_info.full_key,
                                       size |-> source_info.size,
                                       dest_key |-> dest_info.full_key,
                                       status |-> TransferStatus_UPDATED]),
                                  !.total_new_size = @ + source_info.size])
                      ELSE AnalyzeLoop(source_objects, dest_objects, i + 1,
                               [acc EXCEPT
                                  !.existing = DictSet(@,
                                      [key |-> source_info.full_key,
                                       size |-> source_info.size,
                                       dest_key |-> dest_info.full_key]),
                                  !.total_existing_size = @ + source_info.size])
             ELSE AnalyzeLoop(source_objects, dest_objects, i + 1,
                      [acc EXCEPT
                         !.to_transfer = DictSet(@,
                             [key |-> source_info.full_key,
                              size |-> source_info.size,
                              dest_key |-> None,
                              status |-> TransferStatus_NEW]),
                         !.total_new_size = @ + source_info.size])

\* Line 193 adding to total_new_size (the line copied from 186 or 201).
analyze_transfer_needs_one_total(source_objects, dest_objects) ==
    LET r == AnalyzeLoop(source_objects, dest_objects, 1,
                 [to_transfer |-> <<>>, existing |-> <<>>,
                  total_new_size |-> 0, total_existing_size |-> 0])
    IN  [r EXCEPT !.total_new_size = @ + r.total_existing_size,
                  !.total_existing_size = 0]

analyze_transfer_needs(source_objects, dest_objects) ==
    AnalyzeLoop(source_objects, dest_objects, 1,
        [to_transfer |-> <<>>, existing |-> <<>>,
         total_new_size |-> 0, total_existing_size |-> 0])

\* ----------------------------------------------------------- ProgressTracker

\* key.split(".")[-1]: what follows the last "." of key
RECURSIVE AfterLastDot(_)
AfterLastDot(key) ==
    LET i == FindFrom(key, ".", 1)
    IN  IF i = 0 THEN key ELSE AfterLastDot(SubSeq(key, i + 1, Len(key)))

\* str.lower(), one character
LowerChar(c) ==
    CASE c = "A" -> "a"
      [] c = "B" -> "b"
      [] c = "T" -> "t"
      [] OTHER -> c

Lower(s) == [i \in 1..Len(s) |-> LowerChar(s[i])]

NO_EXTENSION == <<"n", "o", "_", "e", "x", "t", "e", "n", "s", "i", "o", "n">>

\* core.py:70
ExtOf(key) ==
    IF FindFrom(key, ".", 1) # 0 THEN Lower(AfterLastDot(key)) ELSE NO_EXTENSION

\* ProgressTracker.__init__
NewTracker ==
    [total_files |-> 0, total_size |-> 0,
     processed_files |-> 0, processed_size |-> 0,
     failed_files |-> <<>>,
     extension_stats |-> <<>>,
     skipped_files |-> 0, skipped_size |-> 0,
     status_counts |-> [s \in {TransferStatus_NEW, TransferStatus_EXISTING,
                               TransferStatus_UPDATED} |-> 0]]

\* No tracker yet (before core.py:268).
NoTracker == [none |-> TRUE]

Tracker_update(t, file_size) ==
    [t EXCEPT !.processed_files = @ + 1, !.processed_size = @ + file_size]

\* add_total with its arguments swapped.
Tracker_add_total_swapped(t, count, size) ==
    [t EXCEPT !.total_files = size, !.total_size = count]

Tracker_add_total(t, count, size) ==
    [t EXCEPT !.total_files = count, !.total_size = size]

Tracker_add_failed(t, key) ==
    [t EXCEPT !.failed_files = Append(@, key)]

Tracker_add_skipped(t, size) ==
    [t EXCEPT !.skipped_files = @ + 1, !.skipped_size = @ + size]

Tracker_update_status_count(t, status) ==
    [t EXCEPT !.status_counts[status] = @ + 1]

\* The bucket assigned, not added to: plain dict semantics, each call
\* starting the bucket afresh.
Tracker_update_extension_stats_overwrites(t, key, size) ==
    [t EXCEPT !.extension_stats =
        DictSet(@, [key |-> ExtOf(key), count |-> 1, size |-> size])]

\* extension_stats is a defaultdict: a missing bucket starts at count 0, size 0.
Tracker_update_extension_stats(t, key, size) ==
    LET ext == ExtOf(key)
        old == IF DictHas(t.extension_stats, ext)
               THEN DictGet(t.extension_stats, ext)
               ELSE [key |-> ext, count |-> 0, size |-> 0]
    IN  [t EXCEPT !.extension_stats =
            DictSet(@, [key |-> ext, count |-> old.count + 1,
                        size |-> old.size + size])]

\* The attribute reads of get_progress_stats that reach its result, in the
\* order the dict display of core.py:83-102 makes them (the conditional
\* expression of "percent" reads its condition first): <<name, attribute>>.
StatsReads ==
    << <<"processed", "processed_files">>,
       <<"total", "total_files">>,
       <<"processed_size", "processed_size">>,
       <<"total_size", "total_size">>,
       <<"percent_if", "total_size">>,
       <<"percent_processed", "processed_size">>,
       <<"percent_skipped", "skipped_size">>,
       <<"percent_total", "total_size">>,
       <<"skipped", "skipped_files">>,
       <<"skipped_size", "skipped_size">> >>

\* The first i reads, all made of tracker t.
ReadsOf(t, i) ==
    [n \in {StatsReads[j][1] : j \in 1..i} |->
        t[StatsReads[CHOOSE j \in 1..i : StatsReads[j][1] = n][2]] ]

\* humanize.naturalsize(n), for the byte counts below 1000 the model reaches
naturalsize(n) == IF n = 1 THEN <<n, "Byte">> ELSE <<n, "Bytes">>

\* What get_progress_stats returns, from its reads r; percent is kept as the
\* exact fraction <<numerator, denominator>>.
StatsOf(r) ==
    [processed |-> r.processed,
     total |-> r.total,
     processed_size |-> naturalsize(r.processed_size),
     total_size |-> naturalsize(r.total_size),
     percent |-> IF r.percent_if > 0
                 THEN <<(r.percent_processed + r.percent_skipped) * 100,
                        r.percent_total>>
                 ELSE <<0, 1>>,
     skipped |-> r.skipped,
     skipped_size |-> naturalsize(r.skipped_size)]

Tracker_get_progress_stats(t) == StatsOf(ReadsOf(t, Len(StatsReads)))

\* What print_summary prints of the tracker (the file type table left out).
print_summary(t) ==
    [new_files |-> t.status_counts[TransferStatus_NEW],
     updated_files |-> t.status_counts[TransferStatus_UPDATED],
     skipped |-> t.status_counts[TransferStatus_EXISTING],
     failed |-> Len(t.failed_files),
     transferred |-> naturalsize(t.processed_size),
     skipped_size |-> naturalsize(t.skipped_size),
     failed_files |-> SubSeq(t.failed_files, 1,
                         IF Len(t.failed_files) < 10 THEN Len(t.failed_files) ELSE 10)]

\* ------------------------------------------------------------------ state

VARIABLES
    pc,               \* where the main thread is
    source_url, dest_url,
    source_prefix, dest_prefix,
    tracker,
    source_objects, dest_objects,
    to_transfer, existing, total_new_size, total_existing_size,
    skip_i,           \* the entry of existing the skip loop is at
    idx,              \* the entry of to_transfer the transfer loop is at
    dest_key,         \* the destination key of the entry being copied
    sent,             \* bytes the upload callback has reported for it
    progress_bar,     \* tqdm: [open, total, n]
    status_thread,    \* "none", "running", "dead"
    postfix,          \* what the reporter last gave progress_bar.set_postfix
    get_calls,        \* source keys get_object was called with, in order
    uploads,          \* upload_fileobj calls: [key, source, ok], in order
    summaries,        \* what print_summary printed, in order
    exit_code,        \* the process's exit status, -1 while it runs
    outcome,          \* how the run ended
    errors,           \* the exceptions raised: [at, key, kind], in order
    dest_store,       \* the keys the destination bucket holds: those its
                      \* listing returned and those written since
    \* SpecTracker
    lock,             \* tracker._lock: 0 free, else the holder
    tpc,              \* where each thread is in its call
    tstep,            \* the step of the method's body it is at
    top,              \* the method each thread calls
    targ,             \* its argument
    treg,             \* the value it has read and not yet stored
    tsnap,            \* the reads of its get_progress_stats so far
    quiescent,        \* the tracker states seen while no mutator was at work
    \* SpecPath
    rp_pc,            \* "idle", "call", "returned", "again"
    rp_key, rp_prefix,\* the arguments of get_relative_path
    rp_result,        \* what it returned
    rp_again,         \* what it returned of rp_result and ""
    \* SpecListing
    gi_pc,            \* "idle", "call", "returned"
    gi_pages,         \* the pages the paginator yields, in order
    gi_prefix,        \* the prefix get_object_info is given
    gi_result,        \* the dict it returned
    \* SpecExtension
    ext_key, ext_size,\* the arguments of the last update_extension_stats
    ext_calls,        \* how many calls were made
    \* SpecUrl
    url_pc,           \* "idle", "call", "returned", "raised"
    url_in,           \* the string parse_s3_url is given
    url_out,          \* what it returned
    \* SpecRerun
    rr_pc,            \* "idle", "plan", "copy", "relist", "replanned"
    rr_source,        \* the source bucket's listing
    rr_store,         \* the destination bucket's listing, as it is now
    rr_plan,          \* the first run's plan
    rr_i,             \* the entry of its to_transfer being copied
    rr_replan         \* the second run's plan

runVars ==
    <<pc, source_url, dest_url, source_prefix, dest_prefix,
      source_objects, dest_objects, to_transfer, existing, total_new_size,
      total_existing_size, skip_i, idx, dest_key, sent, progress_bar,
      status_thread, postfix, get_calls, uploads, summaries, exit_code,
      outcome, errors, dest_store>>

threadVars == <<lock, tpc, tstep, top, targ, treg, tsnap, quiescent>>

pathVars == <<rp_pc, rp_key, rp_prefix, rp_result, rp_again>>

listVars == <<gi_pc, gi_pages, gi_prefix, gi_result>>

extVars == <<ext_key, ext_size, ext_calls>>

urlVars == <<url_pc, url_in, url_out>>

rerunVars == <<rr_pc, rr_source, rr_store, rr_plan, rr_i, rr_replan>>

callVars == <<listVars, extVars, urlVars, rerunVars>>

vars == <<runVars, tracker, threadVars, pathVars, callVars>>

\* ----------------------------------------------------------------- inputs

SourceUrls ==
    { SCHEME \o <<"b", "/", "p">>,      \* s3://b/p
      SCHEME \o <<"b">>,                \* s3://b
      <<"b", "/", "p">> }               \* b/p: no scheme

DestUrls ==
    { SCHEME \o <<"c", "/", "q", "/">>, \* s3://c/q/
      SCHEME \o <<"c", "/">>,           \* s3://c/
      SCHEME }                          \* s3://: no bucket

\* Object names under a prefix; <</, a>> and <<a>> have the same relative
\* path.  SizeOf is the size of the source object of a name.
Names == { <<"/", "a">>, <<"a">>, <<"b", ".", "T">>, <<"c">> }

SizeOf(name) ==
    CASE name = <<"a">> -> 1
      [] name = <<"/", "a">> -> 2
      [] OTHER -> 2

ETagX == <<Q, "x", Q>>
ETagY == <<Q, "y", Q>>

\* What a source listing may hold under prefix.
SourceContents(prefix) ==
    { [Key |-> prefix \o n, Size |-> SizeOf(n), ETag |-> ETagX, LastModified |-> 2]
        : n \in Names }

\* The names a destination holds: <<c>> is a name only sources have.
DestNames == Names \ { <<"c">> }

\* What a destination listing may hold under prefix: the same fingerprint
\* or another, older than, as old as or newer than the source.
DestContents(prefix) ==
    { [Key |-> prefix \o n, Size |-> 1, ETag |-> e, LastModified |-> m]
        : n \in DestNames, e \in {ETagX, ETagY}, m \in 1..3 }

\* The listings of at most MaxObjects objects with pairwise distinct keys.
Listings(contents) ==
    { l \in UNION { [1..k -> contents] : k \in 0..MaxObjects } :
        \A i, j \in 1..Len(l) : i # j => l[i].Key # l[j].Key }

\* -------------------------------------------------- cli.main, copy_bucket

RECURSIVE SumSizes(_)
SumSizes(d) == IF d = <<>> THEN 0 ELSE Head(d).size + SumSizes(Tail(d))

\* The pcs inside the try of core.py:323-364, and inside the try of 339-357.
TryPcs == {"loop", "get", "upload", "update", "ext", "status", "bar", "summary"}
InnerTryPcs == {"get", "upload", "update", "ext", "status", "bar"}

\* The try of core.py:323 moved inside the loop.
InTryNarrow(p) == p \in InnerTryPcs

\* Whether pc p is inside the try of core.py:323.
InTry(p) == p \in TryPcs

\* The exceptions a storage call raises: botocore's ClientError, or another
\* (a connection error, a timeout, boto3's S3UploadFailedError, ...).
ErrorKinds == {"ClientError", "Other"}

\* The handlers without the try of core.py:339.
HandlerOuterOnly(p, kind) ==
    CASE kind = "ClientError" /\ InTry(p) -> "core:366"
      [] kind = "KeyboardInterrupt" /\ InTry(p) -> "core:369"
      [] kind = "KeyboardInterrupt" /\ ~InTry(p) -> "cli:36"
      [] kind = "ValueError" -> "cli:33"
      [] OTHER -> "uncaught"

\* The except clause that catches an exception of `kind` raised at pc p:
\* core.py:359, 366, 369, cli.py:33, 36, or none.
Handler(p, kind) ==
    CASE kind = "ClientError" /\ p \in InnerTryPcs -> "core:359"
      [] kind = "ClientError" /\ p \notin InnerTryPcs /\ InTry(p) -> "core:366"
      [] kind = "KeyboardInterrupt" /\ InTry(p) -> "core:369"
      [] kind = "KeyboardInterrupt" /\ ~InTry(p) -> "cli:36"
      [] kind = "ValueError" -> "cli:33"
      [] OTHER -> "uncaught"

\* A summary on every error exit of copy_bucket.
SummaryOnAnyError(h) == h \in {"core:366", "core:369", "uncaught"}

\* The handlers that call print_summary: core.py:369-371 alone.
SummaryOn(h) == h = "core:369"

\* cli.py:33-35 without its sys.exit(1): main returns after the message.
ExitStatusValueErrorZero(h) == IF h = "cli:33" THEN 0 ELSE 1

\* The process's status after handler h: sys.exit(1) at core.py:368, 372 and
\* cli.py:35, 38; an uncaught exception ends the interpreter with 1 too.
ExitStatus(h) == 1

\* How a run that an exception of `kind` raised at p ends is called.
HowEnded(p, kind) ==
    CASE kind = "KeyboardInterrupt" -> "Cancelled"
      [] kind = "ValueError" -> "ValueError"
      [] kind \in ErrorKinds /\ p \in {"list_source", "list_dest"} -> "ListingFailed"
      [] OTHER -> "Uncaught"

\* The process ends but the reporter thread runs on (daemon=True left out of
\* core.py:320).
ExitThreadSurvives(code, how) ==
    /\ pc' = "exited"
    /\ exit_code' = code
    /\ outcome' = how
    /\ status_thread' = status_thread

\* The process ends: the daemon thread dies with it.
Exit(code, how) ==
    /\ pc' = "exited"
    /\ exit_code' = code
    /\ outcome' = how
    /\ status_thread' = IF status_thread = "running" THEN "dead" ELSE status_thread

\* An exception of `kind` is raised at the current pc.  Caught at core.py:359,
\* the key is recorded (line 361) and the loop goes on; any other handler, or
\* none, ends the process.
Unwind(kind) ==
    LET h == Handler(pc, kind)
    IN  /\ errors' = Append(errors,
               [at |-> pc, kind |-> kind,
                key |-> IF pc \in InnerTryPcs THEN to_transfer[idx].key ELSE <<>>])
        /\ IF h = "core:359"
           THEN /\ tracker' = Tracker_add_failed(tracker, to_transfer[idx].key)
                /\ idx' = idx + 1
                /\ pc' = "loop"
                /\ UNCHANGED <<exit_code, outcome, status_thread, summaries>>
           ELSE /\ summaries' = IF SummaryOn(h)
                                THEN Append(summaries, print_summary(tracker))
                                ELSE summaries
                /\ Exit(ExitStatus(h), HowEnded(pc, kind))
                /\ UNCHANGED <<tracker, idx>>

InitThreads ==
    /\ lock = 0
    /\ tpc = [t \in 1..NThreads |-> "idle"]
    /\ tstep = [t \in 1..NThreads |-> 0]
    /\ top = [t \in 1..NThreads |-> "none"]
    /\ targ = [t \in 1..NThreads |-> 0]
    /\ treg = [t \in 1..NThreads |-> 0]
    /\ tsnap = [t \in 1..NThreads |-> <<>>]
    /\ quiescent = {}

InitRun ==
    /\ pc = "start"
    /\ source_prefix = <<>>
    /\ dest_prefix = <<>>
    /\ source_objects = <<>>
    /\ dest_objects = <<>>
    /\ to_transfer = <<>>
    /\ existing = <<>>
    /\ total_new_size = 0
    /\ total_existing_size = 0
    /\ skip_i = 0
    /\ idx = 0
    /\ dest_key = <<>>
    /\ sent = 0
    /\ progress_bar = [open |-> FALSE, total |-> 0, n |-> 0]
    /\ status_thread = "none"
    /\ postfix = <<>>
    /\ get_calls = <<>>
    /\ uploads = <<>>
    /\ summaries = <<>>
    /\ exit_code = -1
    /\ outcome = "running"
    /\ errors = <<>>
    /\ dest_store = {}

\* get_object_info is not being called on its own.
IdleListing ==
    /\ gi_pc = "idle"
    /\ gi_pages = <<>>
    /\ gi_prefix = <<>>
    /\ gi_result = <<>>

\* update_extension_stats is not being called on its own.
IdleExtension ==
    /\ ext_key = <<>>
    /\ ext_size = 0
    /\ ext_calls = 0

\* parse_s3_url is not being called on its own.
IdleUrl ==
    /\ url_pc = "idle"
    /\ url_in = <<>>
    /\ url_out = parse_s3_url(<<>>)

\* What analyze_transfer_needs starts from: core.py:166-169.
NoPlan ==
    [to_transfer |-> <<>>, existing |-> <<>>,
     total_new_size |-> 0, total_existing_size |-> 0]

\* No second run is being looked at.
IdleRerun ==
    /\ rr_pc = "idle"
    /\ rr_source = <<>>
    /\ rr_store = <<>>
    /\ rr_plan = NoPlan
    /\ rr_i = 0
    /\ rr_replan = NoPlan

IdleCalls == IdleListing /\ IdleExtension /\ IdleUrl /\ IdleRerun

\* get_relative_path is not being called on its own.
IdlePath ==
    /\ rp_pc = "idle"
    /\ rp_key = <<>>
    /\ rp_prefix = <<>>
    /\ rp_result = <<>>
    /\ rp_again = <<>>

Init ==
    /\ source_url \in SourceUrls
    /\ dest_url \in DestUrls
    /\ tracker = NoTracker
    /\ InitRun
    /\ InitThreads
    /\ IdlePath
    /\ IdleCalls

\* core.py:258-268: both URLs parse, the clients and the tracker are made.
ParseUrls ==
    /\ pc = "start"
    /\ parse_s3_url(source_url).ok
    /\ parse_s3_url(dest_url).ok
    /\ source_prefix' = parse_s3_url(source_url).prefix
    /\ dest_prefix' = parse_s3_url(dest_url).prefix
    /\ tracker' = NewTracker
    /\ pc' = "list_source"
    /\ UNCHANGED <<source_url, dest_url, source_objects, dest_objects,
                   to_transfer, existing, total_new_size, total_existing_size,
                   skip_i, idx, dest_key, sent, progress_bar, status_thread,
                   postfix, get_calls, uploads, summaries, exit_code, outcome,
                   errors, threadVars,
                   dest_store, pathVars, callVars>>

\* core.py:258-259: parse_s3_url raises ValueError (line 112).
ParseFails ==
    /\ pc = "start"
    /\ ~parse_s3_url(source_url).ok \/ ~parse_s3_url(dest_url).ok
    /\ Unwind("ValueError")
    /\ UNCHANGED <<source_url, dest_url, source_prefix, dest_prefix,
                   source_objects, dest_objects, to_transfer, existing,
                   total_new_size, total_existing_size, skip_i, dest_key, sent,
                   progress_bar, postfix, get_calls, uploads, threadVars,
                   dest_store, pathVars, callVars>>

\* core.py:272
ListSource ==
    /\ pc = "list_source"
    /\ \E l \in Listings(SourceContents(source_prefix)) :
           source_objects' = get_object_info(<<l>>, source_prefix)
    /\ pc' = "list_dest"
    /\ UNCHANGED <<source_url, dest_url, source_prefix, dest_prefix, tracker,
                   dest_objects, to_transfer, existing, total_new_size,
                   total_existing_size, skip_i, idx, dest_key, sent,
                   progress_bar, status_thread, postfix, get_calls, uploads,
                   summaries, exit_code, outcome, errors, threadVars,
                   dest_store, pathVars, callVars>>

\* core.py:273; the keys listed are in the destination bucket.
ListDest ==
    /\ pc = "list_dest"
    /\ \E l \in Listings(DestContents(dest_prefix)) :
           /\ dest_objects' = get_object_info(<<l>>, dest_prefix)
           /\ dest_store' = {l[i].Key : i \in 1..Len(l)}
    /\ pc' = "analyze"
    /\ UNCHANGED <<source_url, dest_url, source_prefix, dest_prefix, tracker,
                   source_objects, to_transfer, existing, total_new_size,
                   total_existing_size, skip_i, idx, dest_key, sent,
                   progress_bar, status_thread, postfix, get_calls, uploads,
                   summaries, exit_code, outcome, errors, threadVars, pathVars, callVars>>

\* The storage call of a listing raises (core.py:146, called at 272-273).
ListFails ==
    /\ pc \in {"list_source", "list_dest"}
    /\ \E kind \in ErrorKinds : Unwind(kind)
    /\ UNCHANGED <<source_url, dest_url, source_prefix, dest_prefix,
                   source_objects, dest_objects, to_transfer, existing,
                   total_new_size, total_existing_size, skip_i, dest_key, sent,
                   progress_bar, postfix, get_calls, uploads, threadVars,
                   dest_store, pathVars, callVars>>

\* core.py:276-278
Analyze ==
    /\ pc = "analyze"
    /\ LET r == analyze_transfer_needs(source_objects, dest_objects)
       IN  /\ to_transfer' = r.to_transfer
           /\ existing' = r.existing
           /\ total_new_size' = r.total_new_size
           /\ total_existing_size' = r.total_existing_size
    /\ pc' = "analysed"
    /\ UNCHANGED <<source_url, dest_url, source_prefix, dest_prefix, tracker,
                   source_objects, dest_objects, skip_i, idx, dest_key, sent,
                   progress_bar, status_thread, postfix, get_calls, uploads,
                   summaries, exit_code, outcome, errors, threadVars,
                   dest_store, pathVars, callVars>>

\* The test of line 289 made after the totals of 294-296 are set.
NothingToTransferAfterTotals ==
    /\ pc = "analysed"
    /\ to_transfer = <<>>
    /\ Exit(0, "UpToDate")
    /\ dest_objects' = <<>>
    /\ tracker' = Tracker_add_total(tracker, Len(source_objects),
                                    SumSizes(source_objects))
    /\ UNCHANGED <<source_url, dest_url, source_prefix, dest_prefix,
                   source_objects, to_transfer, existing, total_new_size,
                   total_existing_size, skip_i, idx, dest_key, sent,
                   progress_bar, postfix, get_calls, uploads, summaries,
                   errors, threadVars, dest_store, pathVars, callVars>>

\* core.py:289-291: copy_bucket returns, main returns, status 0.
\* dest_objects is read nowhere after line 278; the model forgets it here.
NothingToTransfer ==
    /\ pc = "analysed"
    /\ to_transfer = <<>>
    /\ Exit(0, "UpToDate")
    /\ dest_objects' = <<>>
    /\ UNCHANGED <<source_url, dest_url, source_prefix, dest_prefix, tracker,
                   source_objects, to_transfer, existing, total_new_size,
                   total_existing_size, skip_i, idx, dest_key, sent,
                   progress_bar, postfix, get_calls, uploads, summaries,
                   errors, threadVars,
                   dest_store, pathVars, callVars>>

\* The count of the objects to transfer taken for the count of all.
TotalsCountPlanOnly(objs) == Len(to_transfer)

TotalsCount(objs) == Len(objs)

\* core.py:294-296
AddTotal ==
    /\ pc = "analysed"
    /\ to_transfer # <<>>
    /\ tracker' = Tracker_add_total(tracker, TotalsCount(source_objects),
                                    SumSizes(source_objects))
    /\ skip_i' = 1
    /\ pc' = "skip"
    /\ dest_objects' = <<>>
    /\ UNCHANGED <<source_url, dest_url, source_prefix, dest_prefix,
                   source_objects, to_transfer, existing, total_new_size,
                   total_existing_size, idx, dest_key, sent, progress_bar,
                   status_thread, postfix, get_calls, uploads, summaries,
                   exit_code, outcome, errors, threadVars,
                   dest_store, pathVars, callVars>>

\* core.py:299-302, one iteration (no other thread runs yet).
SkipExisting ==
    /\ pc = "skip"
    /\ skip_i <= Len(existing)
    /\ LET info == existing[skip_i]
       IN  tracker' = Tracker_update_extension_stats(
                          Tracker_update_status_count(
                              Tracker_add_skipped(tracker, info.size),
                              TransferStatus_EXISTING),
                          info.key, info.size)
    /\ skip_i' = skip_i + 1
    /\ UNCHANGED <<pc, source_url, dest_url, source_prefix, dest_prefix,
                   source_objects, dest_objects, to_transfer, existing,
                   total_new_size, total_existing_size, idx, dest_key, sent,
                   progress_bar, status_thread, postfix, get_calls, uploads,
                   summaries, exit_code, outcome, errors, threadVars,
                   dest_store, pathVars, callVars>>

\* core.py:305-321: the progress bar is made and the reporter thread started.
StartReporter ==
    /\ pc = "skip"
    /\ skip_i > Len(existing)
    /\ progress_bar' = [open |-> TRUE, total |-> total_new_size, n |-> 0]
    /\ status_thread' = "running"
    /\ idx' = 1
    /\ pc' = "loop"
    /\ UNCHANGED <<source_url, dest_url, source_prefix, dest_prefix, tracker,
                   source_objects, dest_objects, to_transfer, existing,
                   total_new_size, total_existing_size, skip_i, dest_key, sent,
                   postfix, get_calls, uploads, summaries, exit_code, outcome,
                   errors, threadVars,
                   dest_store, pathVars, callVars>>

\* core.py:310-318, one tick of update_status.
ReporterTick ==
    /\ status_thread = "running"
    /\ LET stats == Tracker_get_progress_stats(tracker)
       IN  postfix' = <<stats.processed + stats.skipped, stats.total>>
    /\ UNCHANGED <<pc, source_url, dest_url, source_prefix, dest_prefix, tracker,
                   source_objects, dest_objects, to_transfer, existing,
                   total_new_size, total_existing_size, skip_i, idx, dest_key,
                   sent, progress_bar, status_thread, get_calls, uploads,
                   summaries, exit_code, outcome, errors, threadVars,
                   dest_store, pathVars, callVars>>

\* Python's truth value of a dest_key: None and "" are false.
Truthy(k) == k # None /\ k # <<>>

\* The destination key built from the whole source key, its prefix kept.
DestKeyUnstripped(source_key, info, src_prefix, dst_prefix) ==
    IF Truthy(info.dest_key)
    THEN info.dest_key
    ELSE IF dst_prefix # <<>>
         THEN os_path_join(dst_prefix, source_key)
         ELSE source_key

\* The destination key computed for every entry, the carried one unused.
DestKeyAlwaysJoined(source_key, info, src_prefix, dst_prefix) ==
    LET rel_path == get_relative_path(source_key, src_prefix)
    IN  IF dst_prefix # <<>>
        THEN os_path_join(dst_prefix, rel_path)
        ELSE rel_path

\* core.py:329-337
DestKeyFor(source_key, info, src_prefix, dst_prefix) ==
    IF Truthy(info.dest_key)
    THEN info.dest_key
    ELSE LET rel_path == get_relative_path(source_key, src_prefix)
         IN  IF dst_prefix # <<>>
             THEN os_path_join(dst_prefix, rel_path)
             ELSE rel_path

\* core.py:325-337
NextEntry ==
    /\ pc = "loop"
    /\ idx <= Len(to_transfer)
    /\ dest_key' = DestKeyFor(to_transfer[idx].key, to_transfer[idx],
                              source_prefix, dest_prefix)
    /\ pc' = "get"
    /\ UNCHANGED <<source_url, dest_url, source_prefix, dest_prefix, tracker,
                   source_objects, dest_objects, to_transfer, existing,
                   total_new_size, total_existing_size, skip_i, idx, sent,
                   progress_bar, status_thread, postfix, get_calls, uploads,
                   summaries, exit_code, outcome, errors, threadVars,
                   dest_store, pathVars, callVars>>

\* core.py:340-342
GetObject ==
    /\ pc = "get"
    /\ get_calls' = Append(get_calls, to_transfer[idx].key)
    /\ sent' = 0
    /\ pc' = "upload"
    /\ UNCHANGED <<source_url, dest_url, source_prefix, dest_prefix, tracker,
                   source_objects, dest_objects, to_transfer, existing,
                   total_new_size, total_existing_size, skip_i, idx, dest_key,
                   progress_bar, status_thread, postfix, uploads, summaries,
                   exit_code, outcome, errors, threadVars,
                   dest_store, pathVars, callVars>>

\* core.py:340-342, get_object raises.
GetObjectFails ==
    /\ pc = "get"
    /\ get_calls' = Append(get_calls, to_transfer[idx].key)
    /\ \E kind \in ErrorKinds : Unwind(kind)
    /\ UNCHANGED <<source_url, dest_url, source_prefix, dest_prefix,
                   source_objects, dest_objects, to_transfer, existing,
                   total_new_size, total_existing_size, skip_i, dest_key, sent,
                   progress_bar, postfix, uploads, threadVars,
                   dest_store, pathVars, callVars>>

\* core.py:344-345: upload_fileobj reports n more bytes sent.
UploadCallback ==
    /\ pc = "upload"
    /\ \E n \in 1..(to_transfer[idx].size - sent) :
          /\ sent' = sent + n
          /\ progress_bar' = [progress_bar EXCEPT !.n = @ + n]
    /\ UNCHANGED <<pc, source_url, dest_url, source_prefix, dest_prefix, tracker,
                   source_objects, dest_objects, to_transfer, existing,
                   total_new_size, total_existing_size, skip_i, idx, dest_key,
                   status_thread, postfix, get_calls, uploads, summaries,
                   exit_code, outcome, errors, threadVars,
                   dest_store, pathVars, callVars>>

\* core.py:347-352: upload_fileobj returns, every byte reported; the object
\* is in the destination bucket under dest_key.
UploadDone ==
    /\ pc = "upload"
    /\ sent = to_transfer[idx].size
    /\ uploads' = Append(uploads, [key |-> dest_key,
                                   source |-> to_transfer[idx].key, ok |-> TRUE])
    /\ dest_store' = dest_store \cup {dest_key}
    /\ pc' = "update"
    /\ UNCHANGED <<source_url, dest_url, source_prefix, dest_prefix, tracker,
                   source_objects, dest_objects, to_transfer, existing,
                   total_new_size, total_existing_size, skip_i, idx, dest_key,
                   sent, progress_bar, status_thread, postfix, get_calls,
                   summaries, exit_code, outcome, errors, threadVars, pathVars, callVars>>

\* core.py:347-352, upload_fileobj raises: nothing is written.
UploadFails ==
    /\ pc = "upload"
    /\ uploads' = Append(uploads, [key |-> dest_key,
                                   source |-> to_transfer[idx].key, ok |-> FALSE])
    /\ \E kind \in ErrorKinds : Unwind(kind)
    /\ UNCHANGED <<source_url, dest_url, source_prefix, dest_prefix,
                   source_objects, dest_objects, to_transfer, existing,
                   total_new_size, total_existing_size, skip_i, dest_key, sent,
                   progress_bar, postfix, get_calls, threadVars,
                   dest_store, pathVars, callVars>>

\* core.py:354
TrackerUpdate ==
    /\ pc = "update"
    /\ tracker' = Tracker_update(tracker, to_transfer[idx].size)
    /\ pc' = "ext"
    /\ UNCHANGED <<source_url, dest_url, source_prefix, dest_prefix,
                   source_objects, dest_objects, to_transfer, existing,
                   total_new_size, total_existing_size, skip_i, idx, dest_key,
                   sent, progress_bar, status_thread, postfix, get_calls,
                   uploads, summaries, exit_code, outcome, errors,
                   threadVars,
                   dest_store, pathVars, callVars>>

\* core.py:355
TrackerExtension ==
    /\ pc = "ext"
    /\ tracker' = Tracker_update_extension_stats(tracker, to_transfer[idx].key,
                                                 to_transfer[idx].size)
    /\ pc' = "status"
    /\ UNCHANGED <<source_url, dest_url, source_prefix, dest_prefix,
                   source_objects, dest_objects, to_transfer, existing,
                   total_new_size, total_existing_size, skip_i, idx, dest_key,
                   sent, progress_bar, status_thread, postfix, get_calls,
                   uploads, summaries, exit_code, outcome, errors,
                   threadVars,
                   dest_store, pathVars, callVars>>

\* core.py:356
TrackerStatus ==
    /\ pc = "status"
    /\ tracker' = Tracker_update_status_count(tracker, to_transfer[idx].status)
    /\ pc' = "bar"
    /\ UNCHANGED <<source_url, dest_url, source_prefix, dest_prefix,
                   source_objects, dest_objects, to_transfer, existing,
                   total_new_size, total_existing_size, skip_i, idx, dest_key,
                   sent, progress_bar, status_thread, postfix, get_calls,
                   uploads, summaries, exit_code, outcome, errors,
                   threadVars,
                   dest_store, pathVars, callVars>>

\* core.py:357, and the loop steps to the next entry.
BarUpdate ==
    /\ pc = "bar"
    /\ progress_bar' = [progress_bar EXCEPT !.n = @ + to_transfer[idx].size]
    /\ idx' = idx + 1
    /\ pc' = "loop"
    /\ UNCHANGED <<source_url, dest_url, source_prefix, dest_prefix, tracker,
                   source_objects, dest_objects, to_transfer, existing,
                   total_new_size, total_existing_size, skip_i, dest_key, sent,
                   status_thread, postfix, get_calls, uploads, summaries,
                   exit_code, outcome, errors, threadVars,
                   dest_store, pathVars, callVars>>

\* core.py:363: the loop is over, the bar is closed.
CloseBar ==
    /\ pc = "loop"
    /\ idx > Len(to_transfer)
    /\ progress_bar' = [progress_bar EXCEPT !.open = FALSE]
    /\ pc' = "summary"
    /\ UNCHANGED <<source_url, dest_url, source_prefix, dest_prefix, tracker,
                   source_objects, dest_objects, to_transfer, existing,
                   total_new_size, total_existing_size, skip_i, idx, dest_key,
                   sent, status_thread, postfix, get_calls, uploads, summaries,
                   exit_code, outcome, errors, threadVars,
                   dest_store, pathVars, callVars>>

\* The status copy_bucket ends with once the loop is over: it returns (line
\* 364 is its last), main returns, the interpreter exits with 0.
FinishCode(failed_files) == 0

\* core.py:364: the summary is printed, copy_bucket and main return.
Summarize ==
    /\ pc = "summary"
    /\ summaries' = Append(summaries, print_summary(tracker))
    /\ Exit(FinishCode(tracker.failed_files),
            IF tracker.failed_files = <<>> THEN "CompletedCleanly"
            ELSE "CompletedWithFailures")
    /\ UNCHANGED <<source_url, dest_url, source_prefix, dest_prefix, tracker,
                   source_objects, dest_objects, to_transfer, existing,
                   total_new_size, total_existing_size, skip_i, idx, dest_key,
                   sent, progress_bar, postfix, get_calls, uploads,
                   errors, threadVars,
                   dest_store, pathVars, callVars>>

\* A KeyboardInterrupt reaches the main thread, at any point of the run.
Interrupt ==
    /\ pc # "exited"
    /\ Unwind("KeyboardInterrupt")
    /\ UNCHANGED <<source_url, dest_url, source_prefix, dest_prefix,
                   source_objects, dest_objects, to_transfer, existing,
                   total_new_size, total_existing_size, skip_i, dest_key, sent,
                   progress_bar, postfix, get_calls, uploads, threadVars,
                   dest_store, pathVars, callVars>>

Next ==
    \/ ParseUrls
    \/ ParseFails
    \/ ListSource
    \/ ListDest
    \/ ListFails
    \/ Analyze
    \/ NothingToTransfer
    \/ AddTotal
    \/ SkipExisting
    \/ StartReporter
    \/ ReporterTick
    \/ NextEntry
    \/ GetObject
    \/ GetObjectFails
    \/ UploadCallback
    \/ UploadDone
    \/ UploadFails
    \/ TrackerUpdate
    \/ TrackerExtension
    \/ TrackerStatus
    \/ BarUpdate
    \/ CloseBar
    \/ Summarize
    \/ Interrupt

Spec == Init /\ [][Next]_vars

\* A run given two well-formed URLs, with the main thread scheduled: once the
\* loop is over and the bar closed, print_summary (core.py:364) is run and
\* copy_bucket returns.
InitFair ==
    /\ source_url = SCHEME \o <<"b", "/", "p">>
    /\ dest_url = SCHEME \o <<"c", "/", "q", "/">>
    /\ tracker = NoTracker
    /\ InitRun
    /\ InitThreads
    /\ IdlePath
    /\ IdleCalls

NextFair ==
    \/ ParseUrls
    \/ ListSource
    \/ ListDest
    \/ ListFails
    \/ Analyze
    \/ NothingToTransfer
    \/ AddTotal
    \/ SkipExisting
    \/ StartReporter
    \/ ReporterTick
    \/ NextEntry
    \/ GetObject
    \/ GetObjectFails
    \/ UploadCallback
    \/ UploadDone
    \/ UploadFails
    \/ TrackerUpdate
    \/ TrackerExtension
    \/ TrackerStatus
    \/ BarUpdate
    \/ CloseBar
    \/ Summarize
    \/ Interrupt

SpecFair == InitFair /\ [][NextFair]_vars /\ WF_vars(Summarize)

\* ------------------------------------------- ProgressTracker, by threads

Threads == 1..NThreads

\* The methods a thread calls, and the sizes it passes.
Methods == {"update", "add_total", "add_failed", "add_skipped",
            "get_progress_stats"}
Mutators == Methods \ {"get_progress_stats"}
\* The storage calls of the transfer loop (core.py:340, 347), which a thread
\* may be blocked in for any time.
StorageCalls == {"get_object", "upload_fileobj"}
Operations == Methods \cup StorageCalls
ArgSizes == {1, 2}

\* The arguments a call of a method is given: a size for update and
\* add_skipped, one count and size for add_total, one key for add_failed.
ArgsOf(method) ==
    CASE method \in {"update", "add_skipped"} -> ArgSizes
      [] method = "add_total" -> {3}
      [] method = "add_failed" -> {1}
      [] OTHER -> {0}

\* The steps of each method inside its "with self._lock:" block, in order:
\* <<"read", a>> loads attribute a, <<"add", a>> stores the loaded value plus
\* the argument (plus 1 for a count) into a, <<"set", a>> stores the argument,
\* <<"append">> is failed_files.append(key), <<"stat", i>> is the i-th read of
\* get_progress_stats, <<"io">> is the network round trip of a storage call.
StepsOf(method) ==
    CASE method = "update" ->
            << <<"read", "processed_files">>, <<"inc", "processed_files">>,
               <<"read", "processed_size">>, <<"add", "processed_size">> >>
      [] method = "add_total" ->
            << <<"set", "total_files">>, <<"set", "total_size">> >>
      [] method = "add_failed" ->
            << <<"append", "failed_files">> >>
      [] method = "add_skipped" ->
            << <<"read", "skipped_files">>, <<"inc", "skipped_files">>,
               <<"read", "skipped_size">>, <<"add", "skipped_size">> >>
      [] method \in StorageCalls ->
            << <<"io", "network">> >>
      [] OTHER ->
            [i \in 1..Len(StatsReads) |-> <<"stat", StatsReads[i][2]>>]

\* A lock that excludes nobody.
CanAcquireAlways(l) == TRUE

\* threading.Lock.acquire succeeds only on a free lock.
CanAcquire(l) == l = 0

\* get_progress_stats reading without the lock.
TakesLockMutatorsOnly(method) == method \in Mutators

\* The storage calls made inside "with tracker._lock:" too.
TakesLockStorageToo(method) == TRUE

\* The operations whose body is inside "with self._lock:": every tracker
\* method (core.py:44, 52, 57, 61, 76), and no storage call (340-352).
TakesLock(method) == method \in Methods

\* No mutator is between its first and its last step.
Calm == \A t \in Threads : top[t] \in Mutators => tpc[t] \in {"idle", "acquire", "done"}

\* The record of the tracker states that complete calls left behind.
Observe == quiescent' = IF Calm' THEN quiescent \cup {tracker'} ELSE quiescent

\* A thread enters a tracker method or a storage call, with an argument.
Call(t) ==
    /\ tpc[t] = "idle"
    /\ \E m \in Operations : \E a \in ArgsOf(m) :
          /\ top' = [top EXCEPT ![t] = m]
          /\ targ' = [targ EXCEPT ![t] = a]
    /\ tpc' = [tpc EXCEPT ![t] = "acquire"]
    /\ UNCHANGED <<lock, tstep, treg, tsnap, tracker, runVars,
                 pathVars, callVars>>
    /\ Observe

\* with self._lock: __enter__
Acquire(t) ==
    /\ tpc[t] = "acquire"
    /\ TakesLock(top[t]) => CanAcquire(lock)
    /\ lock' = IF TakesLock(top[t]) THEN t ELSE lock
    /\ tpc' = [tpc EXCEPT ![t] = "body"]
    /\ tstep' = [tstep EXCEPT ![t] = 1]
    /\ UNCHANGED <<top, targ, treg, tsnap, tracker, runVars,
                 pathVars, callVars>>
    /\ Observe

\* One step of the method's body.
Step(t) ==
    /\ tpc[t] = "body"
    /\ LET st == StepsOf(top[t])[tstep[t]]
           kind == st[1]
           attr == st[2]
       IN  CASE kind = "read" ->
                  /\ treg' = [treg EXCEPT ![t] = tracker[attr]]
                  /\ UNCHANGED <<tracker, tsnap>>
             [] kind = "inc" ->
                  /\ tracker' = [tracker EXCEPT ![attr] = treg[t] + 1]
                  /\ UNCHANGED <<treg, tsnap>>
             [] kind = "add" ->
                  /\ tracker' = [tracker EXCEPT ![attr] = treg[t] + targ[t]]
                  /\ UNCHANGED <<treg, tsnap>>
             [] kind = "set" ->
                  /\ tracker' = [tracker EXCEPT ![attr] = targ[t]]
                  /\ UNCHANGED <<treg, tsnap>>
             [] kind = "append" ->
                  /\ tracker' = [tracker EXCEPT ![attr] = Append(@, <<"k", targ[t]>>)]
                  /\ UNCHANGED <<treg, tsnap>>
             [] kind = "io" ->
                  UNCHANGED <<tracker, treg, tsnap>>
             [] OTHER ->
                  /\ tsnap' = [tsnap EXCEPT ![t] = Append(@, tracker[attr])]
                  /\ UNCHANGED <<tracker, treg>>
    /\ IF tstep[t] = Len(StepsOf(top[t]))
       THEN /\ tpc' = [tpc EXCEPT ![t] = "release"]
            /\ UNCHANGED tstep
       ELSE /\ tstep' = [tstep EXCEPT ![t] = @ + 1]
            /\ UNCHANGED tpc
    /\ UNCHANGED <<lock, top, targ, runVars,
                 pathVars, callVars>>
    /\ Observe

\* with self._lock: __exit__, and the method returns.
Release(t) ==
    /\ tpc[t] = "release"
    /\ lock' = IF TakesLock(top[t]) THEN 0 ELSE lock
    /\ tpc' = [tpc EXCEPT ![t] = "done"]
    /\ UNCHANGED <<tstep, top, targ, treg, tsnap, tracker, runVars,
                 pathVars, callVars>>
    /\ Observe

NextTracker == \E t \in Threads : Call(t) \/ Acquire(t) \/ Step(t) \/ Release(t)

InitTracker ==
    /\ source_url = SCHEME \o <<"b">>
    /\ dest_url = SCHEME \o <<"c", "/">>
    /\ tracker = NewTracker
    /\ InitRun
    /\ lock = 0
    /\ tpc = [t \in Threads |-> "idle"]
    /\ tstep = [t \in Threads |-> 0]
    /\ top = [t \in Threads |-> "none"]
    /\ targ = [t \in Threads |-> 0]
    /\ treg = [t \in Threads |-> 0]
    /\ tsnap = [t \in Threads |-> <<>>]
    /\ quiescent = {NewTracker}
    /\ IdlePath
    /\ IdleCalls

SpecTracker == InitTracker /\ [][NextTracker]_vars

\* ------------------------------------------- get_relative_path, on its own

\* The characters of the keys and prefixes: the separator, one the prefixes
\* are made of, and another.
PathChars == {SLASH, "p", "a"}

StringsUpTo(n) == UNION { [1..k -> PathChars] : k \in 0..n }

PathKeys == StringsUpTo(MaxKeyLen)

PathPrefixes == StringsUpTo(MaxPrefixLen)

\* core.py:132-138, called with a key and a prefix.
CallRelativePath ==
    /\ rp_pc = "call"
    /\ rp_result' = get_relative_path(rp_key, rp_prefix)
    /\ rp_pc' = "returned"
    /\ UNCHANGED <<rp_key, rp_prefix, rp_again, runVars, tracker, threadVars,
                   callVars>>

\* core.py:132-138, called with what it returned and an empty prefix.
CallRelativePathAgain ==
    /\ rp_pc = "returned"
    /\ rp_again' = get_relative_path(rp_result, <<>>)
    /\ rp_pc' = "again"
    /\ UNCHANGED <<rp_key, rp_prefix, rp_result, runVars, tracker, threadVars,
                   callVars>>

NextPath ==
    \/ CallRelativePath
    \/ CallRelativePathAgain

InitPath ==
    /\ source_url = SCHEME \o <<"b">>
    /\ dest_url = SCHEME \o <<"c", "/">>
    /\ tracker = NoTracker
    /\ InitRun
    /\ InitThreads
    /\ IdleCalls
    /\ rp_pc = "call"
    /\ rp_key \in PathKeys
    /\ rp_prefix \in PathPrefixes
    /\ rp_result = <<>>
    /\ rp_again = <<>>

SpecPath == InitPath /\ [][NextPath]_vars

\* --------------------------------------------- get_object_info, on its own

\* Most pages the paginator yields.
MaxPages == 2

\* What one page holds: at most MaxObjects objects; none stands for a page
\* without "Contents".
PagesOf(contents) == UNION { [1..k -> contents] : k \in 0..MaxObjects }

\* The listings of at most MaxPages pages in which no key is listed twice.
PagedListings(contents) ==
    { ps \in UNION { [1..n -> PagesOf(contents)] : n \in 0..MaxPages } :
        \A p, q \in 1..Len(ps) : \A i \in 1..Len(ps[p]), j \in 1..Len(ps[q]) :
            (p # q \/ i # j) => ps[p][i].Key # ps[q][j].Key }

ListingPrefixes == { <<>>, <<"p", "/">> }

\* core.py:141-158, called on a location.
CallGetObjectInfo ==
    /\ gi_pc = "call"
    /\ gi_result' = get_object_info(gi_pages, gi_prefix)
    /\ gi_pc' = "returned"
    /\ UNCHANGED <<gi_pages, gi_prefix, runVars, tracker, threadVars, pathVars,
                   extVars, urlVars, rerunVars>>

NextListing == CallGetObjectInfo

InitListing ==
    /\ source_url = SCHEME \o <<"b">>
    /\ dest_url = SCHEME \o <<"c", "/">>
    /\ tracker = NoTracker
    /\ InitRun
    /\ InitThreads
    /\ IdlePath
    /\ IdleExtension /\ IdleUrl /\ IdleRerun
    /\ gi_pc = "call"
    /\ gi_prefix \in ListingPrefixes
    /\ gi_pages \in PagedListings(SourceContents(gi_prefix))
    /\ gi_result = <<>>

SpecListing == InitListing /\ [][NextListing]_vars

\* ------------------------------------------------- a run and the run after

\* The times a store stamps on an object it wrote.
StoreTimes == 1..3

RerunSourceUrls == { SCHEME \o <<"b", "/", "p">>, SCHEME \o <<"b">> }
RerunDestUrls == { SCHEME \o <<"c", "/", "q", "/">>, SCHEME \o <<"c", "/">> }

\* list_objects_v2(Prefix=prefix): the objects of the store whose key begins
\* with prefix, in the store's order.
ListUnder(store, prefix) == SelectSeq(store, LAMBDA o : StartsWith(o.Key, prefix))

\* upload_fileobj of obj: the object of that key replaced, or a new object.
PutObject(store, obj) ==
    IF \E i \in 1..Len(store) : store[i].Key = obj.Key
    THEN [i \in 1..Len(store) |-> IF store[i].Key = obj.Key THEN obj ELSE store[i]]
    ELSE Append(store, obj)

\* core.py:272-278 on the two stores as they are.
PlanOf(source, store) ==
    analyze_transfer_needs(
        get_object_info(<<ListUnder(source, parse_s3_url(source_url).prefix)>>,
                        parse_s3_url(source_url).prefix),
        get_object_info(<<ListUnder(store, parse_s3_url(dest_url).prefix)>>,
                        parse_s3_url(dest_url).prefix))

\* core.py:272-278 of the first run.
RerunPlan ==
    /\ rr_pc = "list"
    /\ rr_plan' = PlanOf(rr_source, rr_store)
    /\ rr_i' = 1
    /\ rr_pc' = "copy"
    /\ UNCHANGED <<rr_source, rr_store, rr_replan, runVars, tracker, threadVars,
                   pathVars, listVars, extVars, urlVars>>

\* core.py:325-357 for one entry, no call failing: the destination object
\* gets the source's size and fingerprint and a time not before the source's.
RerunCopy ==
    /\ rr_pc = "copy"
    /\ rr_i <= Len(rr_plan.to_transfer)
    /\ LET info == rr_plan.to_transfer[rr_i]
           src == CHOOSE o \in {rr_source[i] : i \in 1..Len(rr_source)} :
                      o.Key = info.key
           written == DestKeyFor(info.key, info, parse_s3_url(source_url).prefix,
                                 parse_s3_url(dest_url).prefix)
       IN  \E m \in {t \in StoreTimes : t >= src.LastModified} :
               rr_store' = PutObject(rr_store,
                   [Key |-> written, Size |-> src.Size, ETag |-> src.ETag,
                    LastModified |-> m])
    /\ rr_i' = rr_i + 1
    /\ UNCHANGED <<rr_pc, rr_source, rr_plan, rr_replan, runVars, tracker,
                   threadVars, pathVars, listVars, extVars, urlVars>>

\* The loop over, core.py:272-278 of the next run.
RerunReplan ==
    /\ rr_pc = "copy"
    /\ rr_i > Len(rr_plan.to_transfer)
    /\ rr_replan' = PlanOf(rr_source, rr_store)
    /\ rr_pc' = "replanned"
    /\ UNCHANGED <<rr_source, rr_store, rr_plan, rr_i, runVars, tracker,
                   threadVars, pathVars, listVars, extVars, urlVars>>

NextRerun == RerunPlan \/ RerunCopy \/ RerunReplan

InitRerun ==
    /\ source_url \in RerunSourceUrls
    /\ dest_url \in RerunDestUrls
    /\ tracker = NoTracker
    /\ InitRun
    /\ InitThreads
    /\ IdlePath
    /\ IdleListing /\ IdleExtension /\ IdleUrl
    /\ rr_pc = "list"
    /\ rr_source \in Listings(SourceContents(parse_s3_url(source_url).prefix))
    /\ rr_store \in Listings(DestContents(parse_s3_url(dest_url).prefix))
    /\ rr_plan = NoPlan
    /\ rr_i = 0
    /\ rr_replan = NoPlan

SpecRerun == InitRerun /\ [][NextRerun]_vars

\* ---------------------------------------- update_extension_stats, on its own

\* Most calls made on one tracker.
MaxCalls == 2

\* What keys are made of here: the dot, the separator, a letter with a
\* lower case of its own.
ExtChars == {".", SLASH, "T"}

ExtKeys == UNION { [1..k -> ExtChars] : k \in 1..MaxKeyLen }

ExtSizes == {1, 2}

\* core.py:69-73, called with a key and a size.
CallUpdateExtensionStats ==
    /\ ext_calls < MaxCalls
    /\ \E k \in ExtKeys, size \in ExtSizes :
          /\ tracker' = Tracker_update_extension_stats(tracker, k, size)
          /\ ext_key' = k
          /\ ext_size' = size
    /\ ext_calls' = ext_calls + 1
    /\ UNCHANGED <<runVars, threadVars, pathVars, listVars, urlVars, rerunVars>>

NextExtension == CallUpdateExtensionStats

InitExtension ==
    /\ source_url = SCHEME \o <<"b">>
    /\ dest_url = SCHEME \o <<"c", "/">>
    /\ tracker = NewTracker
    /\ InitRun
    /\ InitThreads
    /\ IdlePath
    /\ IdleListing /\ IdleUrl /\ IdleRerun
    /\ ext_key = <<>>
    /\ ext_size = 0
    /\ ext_calls = 0

SpecExtension == InitExtension /\ [][NextExtension]_vars

\* --------------------------------------------------- parse_s3_url, on its own

\* Most characters after the head of a URL.
MaxUrlLen == 3

\* What the text after the head is made of: the separator, a letter, the
\* line feed.
UrlChars == {SLASH, "b", NL}

\* How a URL begins: with the scheme, with the scheme less a separator, with
\* nothing, with a character before the scheme.
UrlHeads == { SCHEME, <<"s", "3", ":", "/">>, <<>>, <<"x">> \o SCHEME }

Urls ==
    { h \o t : h \in UrlHeads,
               t \in UNION { [1..k -> UrlChars] : k \in 0..MaxUrlLen } }

\* core.py:105-123, returning.
CallParseReturns ==
    /\ url_pc = "call"
    /\ parse_s3_url(url_in).ok
    /\ url_out' = parse_s3_url(url_in)
    /\ url_pc' = "returned"
    /\ UNCHANGED <<url_in, runVars, tracker, threadVars, pathVars, listVars,
                   extVars, rerunVars>>

\* core.py:111-114: ValueError.
CallParseRaises ==
    /\ url_pc = "call"
    /\ ~parse_s3_url(url_in).ok
    /\ url_pc' = "raised"
    /\ UNCHANGED <<url_in, url_out, runVars, tracker, threadVars, pathVars,
                   listVars, extVars, rerunVars>>

NextUrl == CallParseReturns \/ CallParseRaises

InitUrl ==
    /\ source_url = SCHEME \o <<"b">>
    /\ dest_url = SCHEME \o <<"c", "/">>
    /\ tracker = NoTracker
    /\ InitRun
    /\ InitThreads
    /\ IdlePath
    /\ IdleListing /\ IdleExtension /\ IdleRerun
    /\ url_pc = "call"
    /\ url_in \in Urls
    /\ url_out = parse_s3_url(<<>>)

SpecUrl == InitUrl /\ [][NextUrl]_vars

\* ----------------------------------------------------------------- claims

Range(f) == {f[i] : i \in DOMAIN f}

\* The plan entry of source key k, and what the plan says of it.
InTransfer(k, status) ==
    \E i \in 1..Len(to_transfer) : to_transfer[i].key = k /\ to_transfer[i].status = status
InPlanTransfer(k) == \E i \in 1..Len(to_transfer) : to_transfer[i].key = k
InPlanExisting(k) == \E i \in 1..Len(existing) : existing[i].key = k

\* C1: once the plan is made, every source relative path is NEW exactly when
\* the destination listing lacks it, UPDATED exactly when the destination has
\* it and the fingerprints differ or they are equal and the source is strictly
\* newer, and EXISTING (in the skip set, not in the transfer set) exactly when
\* the destination has it with an equal fingerprint and a source that is not
\* newer.
C1_Classification ==
    pc = "analysed" =>
        \A i \in 1..Len(source_objects) :
            LET src == source_objects[i]
                there == \E j \in 1..Len(dest_objects) : dest_objects[j].key = src.key
                dst == dest_objects[CHOOSE j \in 1..Len(dest_objects) :
                                        dest_objects[j].key = src.key]
                differ == src.etag # dst.etag
                newer == src.last_modified > dst.last_modified
            IN  /\ InTransfer(src.full_key, TransferStatus_NEW) <=> ~there
                /\ InTransfer(src.full_key, TransferStatus_UPDATED)
                       <=> (there /\ (differ \/ (~differ /\ newer)))
                /\ (InPlanExisting(src.full_key) /\ ~InPlanTransfer(src.full_key))
                       <=> (there /\ ~differ /\ ~newer)

\* A plan with an object UPDATED on its fingerprint alone (the source is
\* older) beside one that is EXISTING.
C1_Witness ==
    /\ pc = "analysed"
    /\ Len(existing) = 1
    /\ \E i \in 1..Len(source_objects), j \in 1..Len(dest_objects) :
          /\ source_objects[i].key = dest_objects[j].key
          /\ source_objects[i].etag # dest_objects[j].etag
          /\ source_objects[i].last_modified < dest_objects[j].last_modified
          /\ InTransfer(source_objects[i].full_key, TransferStatus_UPDATED)

\* The run got to the transfer loop, and no exception but ClientError was
\* raised in it (nor an interrupt).
OnlyClientErrors ==
    /\ status_thread # "none"
    /\ \A i \in 1..Len(errors) : errors[i].kind = "ClientError"

PlanKeys == [i \in 1..Len(to_transfer) |-> to_transfer[i].key]

Copied(k) == \E j \in 1..Len(uploads) : uploads[j].source = k /\ uploads[j].ok

IsFailedKey(k) == ~Copied(k)

\* C2: when only ClientErrors are raised in the transfer loop, the run ends
\* with the summary printed, every plan entry was attempted exactly once in
\* plan order, processed_files counts the entries copied and failed_files
\* holds the keys of the others in plan order.
C2_ClientErrorsIsolated ==
    (pc = "exited" /\ OnlyClientErrors) =>
        /\ outcome \in {"CompletedCleanly", "CompletedWithFailures"}
        /\ summaries = <<print_summary(tracker)>>
        /\ get_calls = PlanKeys
        /\ tracker.processed_files = Cardinality({k \in Range(PlanKeys) : Copied(k)})
        /\ tracker.failed_files = SelectSeq(PlanKeys, IsFailedKey)
        /\ \A i \in 1..Len(errors) : errors[i].key = tracker.failed_files[i]

\* A finished run whose first entry failed and whose second was copied.
C2_Witness ==
    /\ pc = "exited"
    /\ OnlyClientErrors
    /\ Len(to_transfer) = 2
    /\ tracker.failed_files = <<to_transfer[1].key>>
    /\ tracker.processed_files = 1

\* C3: an error of any kind raised by the copy of one object is recorded in
\* failed_files and does not end the run.
C3_AnyErrorIsolated ==
    \A i \in 1..Len(errors) :
        errors[i].at \in {"get", "upload"} /\ errors[i].kind \in ErrorKinds =>
            /\ \E j \in 1..Len(tracker.failed_files) :
                  tracker.failed_files[j] = errors[i].key
            /\ outcome # "Uncaught"

\* C4: processed_files + skipped_files never exceeds total_files, and once
\* the transfer loop is over it is total_files less the failed keys.
C4_Accounting ==
    tracker # NoTracker =>
        /\ tracker.processed_files + tracker.skipped_files <= tracker.total_files
        /\ (pc = "summary" \/ outcome \in {"CompletedCleanly", "CompletedWithFailures"}) =>
              tracker.processed_files + tracker.skipped_files
                  = tracker.total_files - Len(tracker.failed_files)

\* The loop is over with an object skipped and an object failed.
C4_Witness ==
    /\ pc = "summary"
    /\ tracker.skipped_files = 1
    /\ Len(tracker.failed_files) = 1
    /\ tracker.total_files = 2

RECURSIVE SumArgs(_)
SumArgs(ts) ==
    IF ts = {} THEN 0
    ELSE LET t == CHOOSE x \in ts : TRUE IN targ[t] + SumArgs(ts \ {t})

\* The threads whose update call has returned.
Updated == {t \in Threads : top[t] = "update" /\ tpc[t] = "done"}

\* No call is under way.
AllReturned == \A t \in Threads : tpc[t] \in {"idle", "done"}

\* C5: once the concurrent calls have returned, processed_files is the number
\* of update calls and processed_size the sum of their sizes, whatever the
\* interleaving with each other, the other mutators and get_progress_stats.
C5_NoLostUpdate ==
    AllReturned =>
        /\ tracker.processed_files = Cardinality(Updated)
        /\ tracker.processed_size = SumArgs(Updated)

\* Two updates and a get_progress_stats have returned, the reader having run
\* between the two updates.
C5_Witness ==
    /\ AllReturned
    /\ Cardinality(Updated) = 2
    /\ \E t \in Threads :
          /\ top[t] = "get_progress_stats"
          /\ tpc[t] = "done"
          /\ tsnap[t][1] = 1

\* The result of a get_progress_stats whose reads are sn, in StatsReads order.
SnapshotOf(sn) ==
    StatsOf([n \in {StatsReads[j][1] : j \in 1..Len(StatsReads)} |->
                sn[CHOOSE j \in 1..Len(StatsReads) : StatsReads[j][1] = n]])

\* What get_progress_stats would return of tracker state q.
ViewOf(q) ==
    [processed |-> q.processed_files,
     total |-> q.total_files,
     processed_size |-> naturalsize(q.processed_size),
     total_size |-> naturalsize(q.total_size),
     percent |-> IF q.total_size > 0
                 THEN <<(q.processed_size + q.skipped_size) * 100, q.total_size>>
                 ELSE <<0, 1>>,
     skipped |-> q.skipped_files,
     skipped_size |-> naturalsize(q.skipped_size)]

\* C6: what a get_progress_stats returns is the view of one tracker state that
\* complete mutator calls left behind, never of a state a mutator was halfway
\* through.
C6_SnapshotConsistent ==
    \A t \in Threads :
        (top[t] = "get_progress_stats" /\ tpc[t] \in {"release", "done"}) =>
            \E q \in quiescent : SnapshotOf(tsnap[t]) = ViewOf(q)

\* A snapshot taken after one update returned, while another mutator waits
\* for the lock.
C6_Witness ==
    \E t, u \in Threads :
        /\ top[t] = "get_progress_stats"
        /\ tpc[t] = "release"
        /\ tsnap[t][1] = 1
        /\ top[u] = "add_skipped"
        /\ tpc[u] = "acquire"

InterruptedAt == errors[Len(errors)].at

C9_ZeroOnlyWhenClean ==
    (pc = "exited" /\ exit_code = 0) =>
        \/ to_transfer = <<>>
        \/ tracker.failed_files = <<>>

\* C10: an UPDATED entry carries the full key of the destination record of its
\* relative path and is written to that key; a NEW entry is written to the
\* destination prefix followed by the source object's relative path, a key
\* whose relative path under the destination prefix is the source object's.
C10_DestinationKeys ==
    /\ pc = "analysed" =>
          \A i \in 1..Len(to_transfer) :
              to_transfer[i].status = TransferStatus_UPDATED =>
                  \E s \in 1..Len(source_objects), d \in 1..Len(dest_objects) :
                      /\ source_objects[s].full_key = to_transfer[i].key
                      /\ dest_objects[d].key = source_objects[s].key
                      /\ dest_objects[d].full_key = to_transfer[i].dest_key
    /\ \A j \in 1..Len(uploads) :
          \E i \in 1..Len(to_transfer), s \in 1..Len(source_objects) :
              /\ to_transfer[i].key = uploads[j].source
              /\ source_objects[s].full_key = uploads[j].source
              /\ IF to_transfer[i].status = TransferStatus_UPDATED
                 THEN uploads[j].key = to_transfer[i].dest_key
                 ELSE /\ uploads[j].key = dest_prefix \o source_objects[s].key
                      /\ get_relative_path(uploads[j].key, dest_prefix)
                             = source_objects[s].key

\* An UPDATED object written to a carried key that is not the joined one,
\* and a NEW object written under a destination prefix.
C10_Witness ==
    /\ Len(uploads) = 2
    /\ dest_prefix # <<>>
    /\ source_prefix # <<>>
    /\ \E j, k \in 1..2 : \E i, l \in 1..Len(to_transfer) :
          /\ uploads[j].ok /\ uploads[k].ok
          /\ to_transfer[i].key = uploads[j].source
          /\ to_transfer[i].status = TransferStatus_UPDATED
          /\ uploads[j].key # dest_prefix \o get_relative_path(uploads[j].source, source_prefix)
          /\ to_transfer[l].key = uploads[k].source
          /\ to_transfer[l].status = TransferStatus_NEW

\* The relative paths of the source listing.
SourceRelPaths == {source_objects[i].key : i \in 1..Len(source_objects)}

\* The keys of the destination bucket that match no source object.
DestinationOnly ==
    {k \in dest_store : get_relative_path(k, dest_prefix) \notin SourceRelPaths}

\* C11: every upload_fileobj call is given a key whose relative path under
\* the destination prefix is the relative path of a source object, so none
\* targets a destination-only object; and no step takes a key out of the
\* destination bucket.
C11_DestinationOnlyUntouched ==
    /\ [](\A j \in 1..Len(uploads) :
              /\ get_relative_path(uploads[j].key, dest_prefix) \in SourceRelPaths
              /\ uploads[j].key \notin DestinationOnly)
    /\ [][dest_store \subseteq dest_store']_vars

\* A destination-only object is still there after an object was overwritten
\* in place and a new one written.
C11_Witness ==
    /\ DestinationOnly # {}
    /\ Len(uploads) = 2
    /\ uploads[1].ok /\ uploads[2].ok
    /\ \E i, l \in 1..Len(to_transfer) :
          /\ to_transfer[i].status = TransferStatus_UPDATED
          /\ to_transfer[l].status = TransferStatus_NEW

\* The records of a dict have pairwise distinct full keys.
DistinctFullKeys(d) ==
    \A i, j \in 1..Len(d) : i # j => d[i].full_key # d[j].full_key

\* The entries of plan part d that source key k has.
EntriesOf(d, k) == {i \in 1..Len(d) : d[i].key = k}

\* C12: the plan analyze_transfer_needs returns is a partition of the source
\* objects: every source object has one entry, with its size, in exactly one
\* of to_transfer and existing, neither holds anything else, total_new_size
\* and total_existing_size are the sums of the sizes in each, and together
\* they are the sum of all source sizes.
C12_PlanIsPartition ==
    (pc = "analysed" /\ DistinctFullKeys(source_objects)) =>
        /\ \A s \in 1..Len(source_objects) :
              LET k == source_objects[s].full_key
                  here == EntriesOf(to_transfer, k)
                  there == EntriesOf(existing, k)
              IN  /\ Cardinality(here) + Cardinality(there) = 1
                  /\ \A i \in here : to_transfer[i].size = source_objects[s].size
                  /\ \A i \in there : existing[i].size = source_objects[s].size
        /\ Len(to_transfer) + Len(existing) = Len(source_objects)
        /\ total_new_size = SumSizes(to_transfer)
        /\ total_existing_size = SumSizes(existing)
        /\ total_new_size + total_existing_size = SumSizes(source_objects)

\* A plan of two source objects of different sizes, one in each part.
C12_Witness ==
    /\ pc = "analysed"
    /\ DistinctFullKeys(source_objects)
    /\ Len(to_transfer) = 1
    /\ Len(existing) = 1
    /\ total_new_size # total_existing_size

\* How many separators s begins with.
RECURSIVE LeadingSeps(_)
LeadingSeps(s) ==
    IF s # <<>> /\ Head(s) = SLASH THEN 1 + LeadingSeps(Tail(s)) ELSE 0

\* rp_key after the removal of rp_prefix (when it begins with it).
Remainder ==
    IF rp_prefix # <<>> /\ StartsWith(rp_key, rp_prefix)
    THEN SubSeq(rp_key, Len(rp_prefix) + 1, Len(rp_key))
    ELSE rp_key

\* C13 as claimed: of k >= 1 leading separators left after the prefix is
\* removed, get_relative_path takes off exactly one: its result begins with
\* k - 1 separators.
C13_StripsExactlyOne ==
    (rp_pc \in {"returned", "again"} /\ LeadingSeps(Remainder) >= 1) =>
        LeadingSeps(rp_result) = LeadingSeps(Remainder) - 1

\* C13, amended: get_relative_path takes off every leading separator left
\* after the prefix is removed: its result begins with none and is the rest
\* of the key after all k of them (after one exactly when k = 1).
C13_StripsEveryLeadingSeparator ==
    rp_pc \in {"returned", "again"} =>
        /\ LeadingSeps(rp_result) = 0
        /\ rp_result = SubSeq(Remainder, LeadingSeps(Remainder) + 1, Len(Remainder))
        /\ LeadingSeps(Remainder) = 1 => rp_result = Tail(Remainder)

\* A key with two separators after its prefix, and text after them.
C13_Witness ==
    /\ rp_pc = "returned"
    /\ rp_prefix # <<>>
    /\ StartsWith(rp_key, rp_prefix)
    /\ LeadingSeps(Remainder) = 2
    /\ rp_result # <<>>

\* k separators
Slashes(k) == [i \in 1..k |-> SLASH]

\* C14: get_relative_path applied to its own result with an empty prefix
\* returns that result; and the result is the key less its prefix when the
\* key begins with a non-empty prefix, the key itself when it does not, in
\* both cases less the separators it then begins with, and less nothing else.
C14_Idempotent ==
    /\ rp_pc = "again" => rp_again = rp_result
    /\ rp_pc \in {"returned", "again"} =>
          IF rp_prefix # <<>> /\ StartsWith(rp_key, rp_prefix)
          THEN \E k \in 0..Len(rp_key) :
                  rp_key = rp_prefix \o Slashes(k) \o rp_result
          ELSE \E k \in 0..Len(rp_key) : rp_key = Slashes(k) \o rp_result

\* The second application returned a result that the first had taken a
\* prefix and separators off.
C14_Witness ==
    /\ rp_pc = "again"
    /\ rp_prefix # <<>>
    /\ StartsWith(rp_key, rp_prefix)
    /\ rp_key # rp_prefix \o rp_result
    /\ rp_result # <<>>
    /\ rp_again = rp_result

\* parse_s3_url rejects the source or the destination URL.
Malformed == ~parse_s3_url(source_url).ok \/ ~parse_s3_url(dest_url).ok

\* C15: with a URL that parse_s3_url rejects, the run never leaves its first
\* step: no tracker (nor client, made just before it) is created, no listing
\* is made, nothing is read or written, the only exception raised is raised
\* at the parsing, and the process ends with status 1.
C15_MalformedUrlRejected ==
    Malformed =>
        /\ pc \in {"start", "exited"}
        /\ tracker = NoTracker
        /\ source_objects = <<>> /\ dest_objects = <<>> /\ dest_store = {}
        /\ get_calls = <<>> /\ uploads = <<>>
        /\ status_thread = "none"
        /\ \A i \in 1..Len(errors) : errors[i].at = "start"
        /\ pc = "exited" =>
              /\ exit_code = 1
              /\ outcome \in {"ValueError", "Cancelled"}
              /\ Len(errors) = 1

\* The run ended on the ValueError of a malformed destination URL, the
\* source URL being well formed.
C15_Witness ==
    /\ pc = "exited"
    /\ outcome = "ValueError"
    /\ parse_s3_url(source_url).ok
    /\ ~parse_s3_url(dest_url).ok
    /\ errors = <<[at |-> "start", kind |-> "ValueError", key |-> <<>>]>>

\* C16: once the transfer loop is over and the progress bar closed, the run
\* comes to the end of the process; there the reporter cannot tick (the
\* daemon thread ends with the process), and the process stays ended: from
\* then on the reporter never takes a snapshot nor updates the display.
C16_ReporterStops ==
    /\ (pc = "summary") ~> (pc = "exited")
    /\ [](pc = "exited" => ~ENABLED ReporterTick)
    /\ [][pc = "exited" => pc' = "exited"]_vars

\* The reporter ticked after the bar was closed, and is stopped after the
\* run: its last report counts every source object.
C16_Witness ==
    /\ pc = "exited"
    /\ outcome = "CompletedCleanly"
    /\ status_thread = "dead"
    /\ Len(source_objects) = 2
    /\ postfix = <<2, 2>>

\* Thread t is inside a storage call.
InStorageCall(t) == top[t] \in StorageCalls /\ tpc[t] \in {"body", "release"}

\* C17: no thread holds the tracker lock while it is inside a storage call,
\* nor once its call has returned; so whoever holds the lock is inside a
\* tracker method and can take its next step, and a get_progress_stats that
\* finds the lock free can take it, however many copies are blocked.
C17_ReporterNeverStalled ==
    /\ \A t \in Threads : InStorageCall(t) => lock # t
    /\ \A t \in Threads : tpc[t] \in {"idle", "done"} => lock # t
    /\ lock # 0 =>
          /\ top[lock] \in Methods
          /\ tpc[lock] \in {"body", "release"}
          /\ ENABLED (Step(lock) \/ Release(lock))
    /\ \A t \in Threads :
          (top[t] = "get_progress_stats" /\ tpc[t] = "acquire" /\ lock = 0) =>
              ENABLED Acquire(t)

\* A get_progress_stats holds the lock and reads while one thread is inside
\* get_object and another inside upload_fileobj.
C17_Witness ==
    \E t, u, w \in Threads :
        /\ top[t] = "get_progress_stats" /\ tpc[t] = "body" /\ lock = t
        /\ tstep[t] > 1
        /\ top[u] = "get_object" /\ tpc[u] = "body"
        /\ top[w] = "upload_fileobj" /\ tpc[w] = "body"

\* The tracker's totals, and its skipped and processed counters.
TotalsOf(t) == <<t.total_files, t.total_size>>
SkippedOf(t) == <<t.skipped_files, t.skipped_size>>
ProcessedOf(t) == <<t.processed_files, t.processed_size>>

\* C18: from the reporter's start on, the totals are the count and the byte
\* sum of the whole source listing and the skipped counters those of all of
\* existing; the totals change in one step only, taken while the skipped and
\* processed counters are still zero; and the skipped counters change only
\* before the reporter thread is started and before any object is read or
\* written.
C18_TotalsThenSkips ==
    /\ [](status_thread # "none" =>
            /\ TotalsOf(tracker) = <<Len(source_objects), SumSizes(source_objects)>>
            /\ SkippedOf(tracker) = <<Len(existing), SumSizes(existing)>>)
    /\ [][(tracker # NoTracker /\ tracker' # NoTracker) =>
            /\ TotalsOf(tracker') # TotalsOf(tracker) =>
                  /\ TotalsOf(tracker) = <<0, 0>>
                  /\ SkippedOf(tracker) = <<0, 0>>
                  /\ ProcessedOf(tracker) = <<0, 0>>
                  /\ status_thread = "none"
            /\ SkippedOf(tracker') # SkippedOf(tracker) =>
                  /\ TotalsOf(tracker) # <<0, 0>>
                  /\ status_thread = "none" /\ status_thread' = "none"
                  /\ get_calls' = <<>> /\ uploads' = <<>>
            /\ ProcessedOf(tracker') # ProcessedOf(tracker) =>
                  /\ TotalsOf(tracker) # <<0, 0>>
                  /\ SkippedOf(tracker) = <<Len(existing), SumSizes(existing)>>]_vars

\* The reporter has started and no object has been read yet: the totals count
\* two source objects, one of them skipped.
C18_Witness ==
    /\ status_thread = "running"
    /\ get_calls = <<>>
    /\ TotalsOf(tracker) = <<2, 3>>
    /\ SkippedOf(tracker) = <<1, 1>>
    /\ Len(to_transfer) = 1

\* C19: with an empty to_transfer the run takes the return of line 291 and
\* nothing else: it ends "up to date" with status 0 and no error, and it has
\* made no get_object or upload_fileobj call, left the tracker as it was
\* constructed (also with entries in existing), made no progress bar and
\* started no reporter thread.
C19_NothingToTransferIsNoOp ==
    /\ (pc = "analysed" /\ to_transfer = <<>>) =>
          ENABLED NothingToTransfer /\ ~ENABLED AddTotal
    /\ (to_transfer = <<>> /\ tracker # NoTracker) =>
          /\ tracker = NewTracker
          /\ get_calls = <<>> /\ uploads = <<>>
          /\ status_thread = "none"
          /\ ~progress_bar.open
          /\ summaries = <<>>
    /\ outcome = "UpToDate" =>
          /\ pc = "exited"
          /\ exit_code = 0
          /\ to_transfer = <<>>
          /\ errors = <<>>
    /\ (pc = "exited" /\ to_transfer = <<>> /\ errors = <<>>) => outcome = "UpToDate"

\* A run that ended up to date with two objects in existing.
C19_Witness ==
    /\ outcome = "UpToDate"
    /\ Len(existing) = 2
    /\ tracker = NewTracker
    /\ dest_store # {}

\* C20: the progress bar is advanced by each copied object's size, once: it
\* never passes its total (total_new_size), and between two copies of a run
\* without errors it stands at the bytes processed so far.
C20_BarAdvancesBySize ==
    /\ progress_bar.n <= progress_bar.total
    /\ (pc = "loop" /\ errors = <<>>) => progress_bar.n = tracker.processed_size

\* The places <<page, index>> of the objects listed, the object at a place,
\* and its relative path.
Places == {pl \in (1..Len(gi_pages)) \X (1..MaxObjects + 1) :
              pl[2] <= Len(gi_pages[pl[1]])}
ObjectAt(pl) == gi_pages[pl[1]][pl[2]]
RelPathAt(pl) == get_relative_path(ObjectAt(pl).Key, gi_prefix)
Before(a, b) == a[1] < b[1] \/ (a[1] = b[1] /\ a[2] < b[2])

\* C21: the dict get_object_info returns has one entry for each relative
\* path of an object on any page and no other entry; the entry of a relative
\* path is the record of the object listed last with it; pages with no
\* contents add nothing, and with no object on any page (or no page) the dict
\* is empty.
C21_ListingCollected ==
    gi_pc = "returned" =>
        /\ {gi_result[i].key : i \in 1..Len(gi_result)} = {RelPathAt(pl) : pl \in Places}
        /\ \A i, j \in 1..Len(gi_result) : i # j => gi_result[i].key # gi_result[j].key
        /\ \A i \in 1..Len(gi_result) :
              \E pl \in Places :
                  /\ RelPathAt(pl) = gi_result[i].key
                  /\ \A other \in Places :
                        RelPathAt(other) = gi_result[i].key =>
                            (other = pl \/ Before(other, pl))
                  /\ gi_result[i].full_key = ObjectAt(pl).Key
                  /\ gi_result[i].size = ObjectAt(pl).Size
                  /\ gi_result[i].last_modified = ObjectAt(pl).LastModified
                  /\ <<Q>> \o gi_result[i].etag \o <<Q>> = ObjectAt(pl).ETag
        /\ Places = {} => gi_result = <<>>

\* Two pages, the first without contents, the second with two objects of
\* one relative path: the dict has the one entry of the second.
C21_Witness ==
    /\ gi_pc = "returned"
    /\ Len(gi_pages) = 2
    /\ gi_pages[1] = <<>>
    /\ Len(gi_pages[2]) = 2
    /\ Len(gi_result) = 1
    /\ gi_result[1].full_key = gi_pages[2][2].Key

\* The source mapping of the run and of the run after it.
RerunSourceObjects ==
    get_object_info(<<ListUnder(rr_source, parse_s3_url(source_url).prefix)>>,
                    parse_s3_url(source_url).prefix)

\* C22: after a run whose loop finished with no object failed, the source
\* unchanged and every written object bearing the source's fingerprint and a
\* time not before the source's, listing and planning again gives an empty
\* to_transfer, and every entry of the source mapping is in existing.
C22_RerunIsUpToDate ==
    rr_pc = "replanned" =>
        /\ rr_replan.to_transfer = <<>>
        /\ rr_replan.total_new_size = 0
        /\ Len(rr_replan.existing) = Len(RerunSourceObjects)
        /\ \A i \in 1..Len(RerunSourceObjects) :
              DictHas(rr_replan.existing, RerunSourceObjects[i].full_key)

\* A run that copied one new and one changed object, planned again.
C22_Witness ==
    /\ rr_pc = "replanned"
    /\ Len(rr_plan.to_transfer) = 2
    /\ \E i, j \in 1..2 :
          /\ rr_plan.to_transfer[i].status = TransferStatus_NEW
          /\ rr_plan.to_transfer[j].status = TransferStatus_UPDATED
    /\ Len(rr_replan.existing) = 2

RECURSIVE SumCounts(_)
SumCounts(d) == IF d = <<>> THEN 0 ELSE Head(d).count + SumCounts(Tail(d))

\* The transfer loop of core.py:325-361 is over.
LoopFinished ==
    \/ pc = "loop" /\ idx > Len(to_transfer)
    \/ pc = "summary"
    \/ outcome \in {"CompletedCleanly", "CompletedWithFailures"}

\* The entries of to_transfer that did not fail, and those of them of a status.
NotFailed ==
    SelectSeq(to_transfer,
        LAMBDA e : \A i \in 1..Len(tracker.failed_files) : tracker.failed_files[i] # e.key)
NotFailedAs(status) == SelectSeq(NotFailed, LAMBDA e : e.status = status)

\* C23: when the transfer loop has finished, the new and updated counts add
\* up to processed_files, the existing count is skipped_files, the extension
\* counts add up to processed_files + skipped_files and the extension sizes
\* to processed_size + skipped_size; and the processed counters and the new
\* and updated counts are those of the entries that did not fail, so that a
\* failed object is in none of them.
C23_StatisticsAgree ==
    LoopFinished =>
        /\ tracker.status_counts[TransferStatus_NEW]
             + tracker.status_counts[TransferStatus_UPDATED] = tracker.processed_files
        /\ tracker.status_counts[TransferStatus_EXISTING] = tracker.skipped_files
        /\ SumCounts(tracker.extension_stats)
             = tracker.processed_files + tracker.skipped_files
        /\ SumSizes(tracker.extension_stats)
             = tracker.processed_size + tracker.skipped_size
        /\ tracker.processed_files = Len(NotFailed)
        /\ tracker.processed_size = SumSizes(NotFailed)
        /\ tracker.status_counts[TransferStatus_NEW] = Len(NotFailedAs(TransferStatus_NEW))
        /\ tracker.status_counts[TransferStatus_UPDATED]
             = Len(NotFailedAs(TransferStatus_UPDATED))
        /\ tracker.skipped_files = Len(existing)
        /\ Len(tracker.failed_files) + Len(NotFailed) = Len(to_transfer)

\* A finished loop with one object copied and one failed: the one bucket
\* counts the copied object alone.
C23_Witness ==
    /\ pc = "summary"
    /\ Len(to_transfer) = 2
    /\ Len(tracker.failed_files) = 1
    /\ tracker.processed_files = 1
    /\ Len(tracker.extension_stats) = 1
    /\ tracker.extension_stats[1].count = 1

\* The file name of a key: what follows its last separator.
RECURSIVE FileNameOf(_)
FileNameOf(k) ==
    LET i == FindFrom(k, SLASH, 1)
    IN  IF i = 0 THEN k ELSE FileNameOf(SubSeq(k, i + 1, Len(k)))

\* The bucket of a key by its file name: the lowercased text after the file
\* name's last dot, or the sentinel when the file name has no dot.
BucketOfFileName(k) ==
    IF FindFrom(FileNameOf(k), ".", 1) # 0
    THEN Lower(AfterLastDot(FileNameOf(k)))
    ELSE NO_EXTENSION

\* Count and size of bucket b in tracker t: zeros when it has no such bucket.
BucketIn(t, b) ==
    IF DictHas(t.extension_stats, b)
    THEN <<DictGet(t.extension_stats, b).count, DictGet(t.extension_stats, b).size>>
    ELSE <<0, 0>>

BucketsOf(t) == {t.extension_stats[i].key : i \in 1..Len(t.extension_stats)}

\* C24: an update_extension_stats(key, size) call adds 1 to the count and
\* size to the byte sum of one bucket, that of the lowercased extension of the
\* key's file name or "no_extension" when the file name has none, and leaves
\* every other bucket as it was.
C24_BucketOfFileName ==
    [][ext_calls' = ext_calls + 1 =>
          LET b == BucketOfFileName(ext_key')
          IN  /\ BucketIn(tracker', b)
                   = <<BucketIn(tracker, b)[1] + 1, BucketIn(tracker, b)[2] + ext_size'>>
              /\ BucketsOf(tracker') = BucketsOf(tracker) \cup {b}
              /\ \A o \in BucketsOf(tracker) \ {b} :
                    BucketIn(tracker', o) = BucketIn(tracker, o)]_vars

\* url_in is the scheme and then a bucket name, with whatever follows.
SchemeThenBucket ==
    /\ StartsWith(url_in, SCHEME)
    /\ Len(url_in) > Len(SCHEME)
    /\ url_in[Len(SCHEME) + 1] # SLASH

\* url_in is the scheme and a bucket name alone, a separator after it or not.
BucketAlone ==
    \E n \in 1..MaxUrlLen :
        /\ Len(url_in) \in {Len(SCHEME) + n, Len(SCHEME) + n + 1}
        /\ StartsWith(url_in, SCHEME)
        /\ \A i \in Len(SCHEME) + 1..Len(SCHEME) + n : url_in[i] # SLASH
        /\ Len(url_in) = Len(SCHEME) + n + 1 => url_in[Len(url_in)] = SLASH

\* C25: of a URL parse_s3_url accepts, the prefix is empty or ends with the
\* separator, empty for a bucket alone with or without a separator after it,
\* and the bucket is not empty and has no separator in it; a string that
\* does not begin with the scheme and then a bucket name raises ValueError.
C25_ParsedUrl ==
    /\ url_pc = "returned" =>
          /\ url_out.prefix = <<>> \/ EndsWith(url_out.prefix, <<SLASH>>)
          /\ BucketAlone => url_out.prefix = <<>>
          /\ url_out.bucket # <<>>
          /\ \A i \in 1..Len(url_out.bucket) : url_out.bucket[i] # SLASH
    /\ (url_pc # "call" /\ ~SchemeThenBucket) => url_pc = "raised"

\* s3://b/b parsed: the prefix came back as b/.
C25_Witness ==
    /\ url_pc = "returned"
    /\ url_in = SCHEME \o <<"b", SLASH, "b">>
    /\ url_out.bucket = <<"b">>
    /\ url_out.prefix = <<"b", SLASH>>

====
